---- MODULE Spec2Model ----
(***************************************************************************)
(* Model of src/core/http-devserver.ts: the client registry of the preview *)
(* dev server, the log-event broadcast, connect and reloadClients.         *)
(*                                                                         *)
(* JavaScript runs one turn at a time.  A turn of an async function runs   *)
(* from its call (or from the resumption of an await) to the next await    *)
(* or to its end.  WebSocket.send returns undefined or throws              *)
(* synchronously, so `await socket.send(..)` suspends the function exactly *)
(* when the send did not throw.  Every action below is one such turn.      *)
(***************************************************************************)
EXTENDS Naturals, Integers, Sequences, FiniteSets, TLC

\* ---- bounds of the model ----
MaxSockets == 2     \* successful websocket upgrades over a behaviour
MaxPasses == 2      \* broadcast passes (reloadClients calls + log records)
MaxFileLen == 2     \* bytes of a file handed to injectClient

\* ---- values of the platform and inputs ----
\* WebSocket.CLOSING and WebSocket.CLOSED, the constants read at line 92
WS_CLOSING == 2
WS_CLOSED == 3

Urls == {"/"}
\* the argument of reloadClients: omitted, or a target string
ReloadArgs == {[given |-> FALSE, value |-> ""], [given |-> TRUE, value |-> "/x"]}
\* the (logRecord, msg) pairs the log subsystem emits, already serialized
LogRecords == {"{}"}

\* text is a sequence of code points, a buffer a sequence of bytes
NL == 10
ByteSamples == {0, 10, 200}
Files == UNION {[1..n -> ByteSamples] : n \in 0..MaxFileLen}
\* httpDevServer(port, isPresentation?)
Ports == {80}
OptBools == {[given |-> FALSE, value |-> FALSE], [given |-> TRUE, value |-> FALSE],
             [given |-> TRUE, value |-> TRUE]}
\* inputFile?: omitted, "", "i", "\u00e9"
InputFiles == {[given |-> FALSE, value |-> <<>>], [given |-> TRUE, value |-> <<>>],
               [given |-> TRUE, value |-> <<105>>], [given |-> TRUE, value |-> <<233>>]}
\* format?: omitted, a revealjs format, an html format
Formats == {[given |-> FALSE, pandoc |-> [to |-> ""]],
            [given |-> TRUE, pandoc |-> [to |-> "revealjs"]],
            [given |-> TRUE, pandoc |-> [to |-> "html"]]}
\* req.headers.get("upgrade"): null or the header's value
UpgradeHeaders == {[given |-> FALSE, value |-> ""], [given |-> TRUE, value |-> "websocket"],
                   [given |-> TRUE, value |-> "h2c"]}

VARIABLES
  clients,      \* const clients: Client[]  (sequence of [path, socket])
  nextSocket,   \* identity of the next socket Deno.upgradeWebSocket creates
  pass,         \* the invocations of reloadClients and of the log handler
  nextPass,     \* the next unused invocation slot
  lastConnect,  \* what the last connect call returned and reported
  removed,      \* history: sockets whose entry was spliced out
  ghost,        \* history: per pass, what ran while it was suspended
  server,       \* the parameters of httpDevServer: port, isPresentation
  buffer,       \* the caller's Uint8Array handed to injectClient
  injected,     \* the last injectClient call: its arguments and its result
  handled       \* the last handle call: its header and its result

regvars == <<clients, nextSocket, pass, nextPass, lastConnect, removed, ghost>>

ivars == <<server, buffer, injected, handled>>

vars == <<clients, nextSocket, pass, nextPass, lastConnect, removed, ghost,
          server, buffer, injected, handled>>

PassIds == 1..MaxPasses

NoPass ==
  [kind |-> "none", status |-> "idle", arg |-> [given |-> FALSE, value |-> ""],
   target |-> "", frame |-> "", i |-> 0,
   socket |-> 0, start |-> <<>>, sent |-> <<>>, failed |-> {},
   displayed |-> {}, closes |-> <<>>, spliced |-> <<>>]

NoGhost == [solo |-> TRUE, intact |-> TRUE, first |-> 0]

\* ---- JavaScript helpers ----
\* truthiness of a number
Truthy(n) == n # 0

\* variant: splice(i, 0), which removes nothing
Splice_CountZero(cs, i) == cs

\* variant: splice(i - 1, 1), the index is off by one
Splice_Before(cs, i) ==
  IF i >= 1 /\ i <= Len(cs)
  THEN SubSeq(cs, 1, i - 1) \o SubSeq(cs, i + 1, Len(cs))
  ELSE cs

\* Array.prototype.splice(i, 1): removes the element at 0-based index i,
\* and nothing when i is not an index of the array
Splice(cs, i) ==
  IF i >= 0 /\ i < Len(cs)
  THEN SubSeq(cs, 1, i) \o SubSeq(cs, i + 2, Len(cs))
  ELSE cs

SocketsOf(cs) == {cs[k].socket : k \in 1..Len(cs)}

SocketSeq(cs) == [k \in 1..Len(cs) |-> cs[k].socket]

\* default parameter value: reloadTarget = ""
DefaultTarget(arg) == IF arg.given THEN arg.value ELSE ""

\* variant: a separator between the prefix and the target
ReloadFrame_Separator(reloadTarget) == "reload:" \o reloadTarget

\* `${message}${reloadTarget}` with message = "reload"
ReloadFrame(reloadTarget) == "reload" \o reloadTarget

\* "log:" + JSON.stringify({...logRecord, msgFormatted: msg})
LogFrame(rec) == "log:" \o rec

\* !socket.CLOSED && !socket.CLOSING
ShouldClose(socket) == ~Truthy(WS_CLOSED) /\ ~Truthy(WS_CLOSING)

\* variant: the upgrade hands out the first socket again
FreshSocket_Reuse(next) == 1

\* the socket of a new upgrade is a new object
FreshSocket(next) == next

\* ---- reloadClients ----
\* variant: close and splice at the end of the try block instead of finally,
\* so that they are skipped when send threw
ReloadCatchFinally_InTry(cs, p, threw, cthrow) ==
  IF threw
  THEN [clients |-> cs,
        pass |-> [p EXCEPT !.failed = @ \cup {p.socket},
                           !.displayed = @ \cup {p.socket}, !.i = @ - 1]]
  ELSE [clients |-> Splice(cs, p.i),
        pass |-> [p EXCEPT !.spliced = @ \o (IF p.i < Len(cs)
                                             THEN <<cs[p.i + 1].socket>> ELSE <<>>),
                           !.i = @ - 1]]

\* variant: clients.shift() in place of clients.splice(i, 1)
ReloadCatchFinally_Shift(cs, p, threw, cthrow) ==
  [clients |-> Tail(cs),
   pass |-> [p EXCEPT !.failed = IF threw THEN @ \cup {p.socket} ELSE @,
                      !.displayed = IF threw THEN @ \cup {p.socket} ELSE @,
                      !.spliced = Append(@, cs[1].socket), !.i = @ - 1]]

\* variant: clients.pop() in place of clients.splice(i, 1)
ReloadCatchFinally_Pop(cs, p, threw, cthrow) ==
  [clients |-> SubSeq(cs, 1, Len(cs) - 1),
   pass |-> [p EXCEPT !.failed = IF threw THEN @ \cup {p.socket} ELSE @,
                      !.displayed = IF threw THEN @ \cup {p.socket} ELSE @,
                      !.spliced = IF cs = <<>> THEN @ ELSE Append(@, cs[Len(cs)].socket),
                      !.i = @ - 1]]

\* catch and finally of one iteration: threw says whether send threw.
\* cthrow is the set of sockets whose close() throws.
ReloadCatchFinally(cs, p, threw, cthrow) ==
  LET s == p.socket
      p1 == IF threw
            THEN [p EXCEPT !.failed = @ \cup {s}, !.displayed = @ \cup {s}]
            ELSE p
      p2 == IF ShouldClose(s)
            THEN [p1 EXCEPT !.closes = Append(@, s),
                            !.displayed = IF s \in cthrow THEN @ \cup {s} ELSE @]
            ELSE p1
      gone == IF p.i < Len(cs) THEN <<cs[p.i + 1].socket>> ELSE <<>>
  IN [clients |-> Splice(cs, p.i),
      pass |-> [p2 EXCEPT !.spliced = @ \o gone, !.i = @ - 1]]

\* the for loop from its condition on, until the next await or the end
RECURSIVE ReloadLoop(_, _, _, _)
ReloadLoop(cs, p, sthrow, cthrow) ==
  IF p.i < 0
  THEN [clients |-> cs, pass |-> [p EXCEPT !.status = "done"]]
  ELSE IF p.i >= Len(cs)
  THEN \* clients[i] is undefined: reading .socket throws outside the try
       [clients |-> cs, pass |-> [p EXCEPT !.status = "rejected"]]
  ELSE LET s == cs[p.i + 1].socket
           p1 == [p EXCEPT !.socket = s,
                           !.sent = Append(@, [socket |-> s,
                                               frame |-> ReloadFrame(p.target)])]
       IN IF s \in sthrow
          THEN LET r == ReloadCatchFinally(cs, p1, TRUE, cthrow)
               IN ReloadLoop(r.clients, r.pass, sthrow, cthrow)
          ELSE [clients |-> cs, pass |-> [p1 EXCEPT !.status = "awaiting"]]

\* ---- the log handler ----
\* variant: a failed send drops the client from the registry
LogAfterSend_DropFailed(cs, p, threw) ==
  [clients |-> IF threw THEN Splice(cs, p.i) ELSE cs,
   pass |-> [p EXCEPT !.failed = IF threw THEN @ \cup {p.socket} ELSE @,
                      !.i = @ - 1]]

\* variant: no try/catch around send, so a failed send ends the handler
LogAfterSend_NoCatch(cs, p, threw) ==
  [clients |-> cs,
   pass |-> [p EXCEPT !.failed = IF threw THEN @ \cup {p.socket} ELSE @,
                      !.i = IF threw THEN -1 ELSE @ - 1]]

\* variant: the index is decremented in the catch block only
LogAfterSend_NoDecrement(cs, p, threw) ==
  [clients |-> cs,
   pass |-> [p EXCEPT !.failed = IF threw THEN @ \cup {p.socket} ELSE @,
                      !.i = IF threw THEN @ - 1 ELSE @]]

\* catch of one iteration (errors are ignored) and the loop's i--
LogAfterSend(cs, p, threw) ==
  LET p1 == IF threw THEN [p EXCEPT !.failed = @ \cup {p.socket}] ELSE p
  IN [clients |-> cs, pass |-> [p1 EXCEPT !.i = @ - 1]]

RECURSIVE LogLoop(_, _, _)
LogLoop(cs, p, sthrow) ==
  IF p.i < 0
  THEN [clients |-> cs, pass |-> [p EXCEPT !.status = "done"]]
  ELSE IF p.i >= Len(cs)
  THEN [clients |-> cs, pass |-> [p EXCEPT !.status = "rejected"]]
  ELSE LET s == cs[p.i + 1].socket
           p1 == [p EXCEPT !.socket = s,
                           !.sent = Append(@, [socket |-> s, frame |-> p.frame])]
       IN IF s \in sthrow
          THEN LET r == LogAfterSend(cs, p1, TRUE)
               IN LogLoop(r.clients, r.pass, sthrow)
          ELSE [clients |-> cs, pass |-> [p1 EXCEPT !.status = "awaiting"]]

\* ---- history bookkeeping ----
\* a turn of pass q (0 for connect) ran and left the registry as cs2;
\* first is the socket the next upgrade creates when the pass is called
Observe(q, cs2) ==
  [p \in PassIds |->
     IF p # q /\ pass[p].status = "awaiting"
     THEN [solo |-> FALSE,
           intact |-> ghost[p].intact /\ SocketsOf(clients) \subseteq SocketsOf(cs2),
           first |-> ghost[p].first]
     ELSE IF p = q /\ pass[p].status = "idle"
     THEN [ghost[p] EXCEPT !.first = nextSocket]
     ELSE ghost[p]]

\* the sockets a turn that enters the loop at index i can reach
Ahead(cs, i) == {cs[k].socket : k \in 1..(IF i + 1 < Len(cs) THEN i + 1 ELSE Len(cs))}

\* the sets of sockets whose send() throws in such a turn
SendThrows(cs, i) == SUBSET Ahead(cs, i)

\* the sets of sockets whose close() throws: matters only if close() is reached
CloseThrows(cs, i) == IF \E s \in Ahead(cs, i) : ShouldClose(s)
                      THEN SUBSET Ahead(cs, i) ELSE {{}}

Commit(q, r) ==
  /\ clients' = r.clients
  /\ pass' = [pass EXCEPT ![q] = r.pass]
  /\ removed' = removed \cup {r.pass.spliced[k] : k \in 1..Len(r.pass.spliced)}
  /\ ghost' = Observe(q, r.clients)
  /\ UNCHANGED ivars

\* ---- actions ----
NoInjected ==
  [called |-> FALSE, inputFile |-> [given |-> FALSE, value |-> <<>>],
   format |-> [given |-> FALSE, pandoc |-> [to |-> ""]],
   parts |-> <<>>, script |-> <<>>, before |-> <<>>, out |-> <<>>]

NoHandled == [called |-> FALSE, upgrade |-> [given |-> FALSE, value |-> ""],
              result |-> FALSE]

InitRegistry ==
  /\ clients = <<>>
  /\ nextSocket = 1
  /\ pass = [p \in PassIds |-> NoPass]
  /\ nextPass = 1
  /\ lastConnect = [returned |-> "none", displayed |-> FALSE, url |-> ""]
  /\ removed = {}
  /\ ghost = [p \in PassIds |-> NoGhost]

Init ==
  /\ InitRegistry
  /\ server = [port |-> 80, isPresentation |-> [given |-> FALSE, value |-> FALSE]]
  /\ buffer = <<>>
  /\ injected = NoInjected
  /\ handled = NoHandled

\* variant: the client is pushed before the upgrade is known to have worked
Connect_PushFirst(url, upgraded) ==
  /\ nextSocket <= MaxSockets
  /\ clients' = Append(clients, [path |-> url, socket |-> FreshSocket(nextSocket)])
  /\ nextSocket' = nextSocket + 1
  /\ lastConnect' = IF upgraded
                    THEN [returned |-> "response", displayed |-> FALSE, url |-> url]
                    ELSE [returned |-> "undefined", displayed |-> TRUE, url |-> url]
  /\ ghost' = Observe(0, clients')
  /\ UNCHANGED <<pass, nextPass, removed>>
  /\ UNCHANGED ivars

\* connect(req): upgraded says whether Deno.upgradeWebSocket returned
Connect(url, upgraded) ==
  /\ IF upgraded
     THEN /\ nextSocket <= MaxSockets
          /\ clients' = Append(clients, [path |-> url, socket |-> FreshSocket(nextSocket)])
          /\ nextSocket' = nextSocket + 1
          /\ lastConnect' = [returned |-> "response", displayed |-> FALSE, url |-> url]
     ELSE /\ clients' = clients
          /\ nextSocket' = nextSocket
          /\ lastConnect' = [returned |-> "undefined", displayed |-> TRUE, url |-> url]
  /\ ghost' = Observe(0, clients')
  /\ UNCHANGED <<pass, nextPass, removed>>
  /\ UNCHANGED ivars

ConnectAny == \E url \in Urls, upgraded \in BOOLEAN : Connect(url, upgraded)

\* reloadClients(arg), up to its first await or its end
ReloadStart ==
  /\ nextPass <= MaxPasses
  /\ \E arg \in ReloadArgs, sthrow \in SendThrows(clients, Len(clients) - 1),
        cthrow \in CloseThrows(clients, Len(clients) - 1) :
       LET p0 == [NoPass EXCEPT !.kind = "reload", !.arg = arg,
                                !.target = DefaultTarget(arg),
                                !.i = Len(clients) - 1, !.start = SocketSeq(clients)]
       IN Commit(nextPass, ReloadLoop(clients, p0, sthrow, cthrow))
  /\ nextPass' = nextPass + 1
  /\ UNCHANGED <<nextSocket, lastConnect>>

\* reloadClients resumes after `await socket.send(..)`
ReloadResume(q) ==
  /\ pass[q].kind = "reload" /\ pass[q].status = "awaiting"
  /\ \E sthrow \in SendThrows(clients, pass[q].i - 1),
        cthrow \in CloseThrows(clients, pass[q].i) :
       LET r == ReloadCatchFinally(clients, pass[q], FALSE, cthrow)
       IN Commit(q, ReloadLoop(r.clients, r.pass, sthrow, cthrow))
  /\ UNCHANGED <<nextSocket, nextPass, lastConnect>>

\* the log subsystem calls the handler with a record
LogStart ==
  /\ nextPass <= MaxPasses
  /\ \E rec \in LogRecords, sthrow \in SendThrows(clients, Len(clients) - 1) :
       LET p0 == [NoPass EXCEPT !.kind = "log", !.frame = LogFrame(rec),
                                !.i = Len(clients) - 1, !.start = SocketSeq(clients)]
       IN Commit(nextPass, LogLoop(clients, p0, sthrow))
  /\ nextPass' = nextPass + 1
  /\ UNCHANGED <<nextSocket, lastConnect>>

\* the log handler resumes after `await socket.send(..)`
LogResume(q) ==
  /\ pass[q].kind = "log" /\ pass[q].status = "awaiting"
  /\ \E sthrow \in SendThrows(clients, pass[q].i - 1) :
       LET r == LogAfterSend(clients, pass[q], FALSE)
       IN Commit(q, LogLoop(r.clients, r.pass, sthrow))
  /\ UNCHANGED <<nextSocket, nextPass, lastConnect>>

\* ---- injectClient and handle ----
\* truthiness of an optional boolean (undefined is falsy)
TruthyOpt(b) == b.given /\ b.value

\* a number rendered into a template: its decimal digits
RECURSIVE DecimalText(_)
DecimalText(n) ==
  IF n < 10 THEN <<48 + n>> ELSE DecimalText(n \div 10) \o <<48 + (n % 10)>>

\* kLocalhost, "127.0.0.1"
KLocalhost == <<49, 50, 55, 46, 48, 46, 48, 46, 49>>

\* resourcePath(name): the location of a named resource
ResourcePath(name) == "share/" \o name

\* renderEjs(template, data): the template's text with its parameters filled
\* in; each template starts with a letter of its own (C, R, V)
RenderEjs(template, data) ==
  CASE template = "share/editor/devserver/devserver-core.html" ->
         <<67>> \o data.localhost \o <<58>> \o DecimalText(data.port)
    [] template = "share/editor/devserver/devserver-revealjs.html" -> <<82>>
    [] template = "share/editor/devserver/devserver-viewer.html" ->
         <<86>> \o data.inputFile

\* isRevealjsOutput(format.pandoc)
IsRevealjsOutput(pandoc) == pandoc.to = "revealjs"

\* Array.prototype.join(sep)
RECURSIVE Join(_, _)
Join(parts, sep) ==
  IF Len(parts) = 0 THEN <<>>
  ELSE IF Len(parts) = 1 THEN parts[1]
  ELSE parts[1] \o sep \o Join(Tail(parts), sep)

\* variant: the presentation flag of the server is not consulted
DevServerParts_IgnoreFlag(port, inputFile, format, isPresentation) ==
  <<RenderEjs(ResourcePath("editor/devserver/devserver-core.html"),
              [localhost |-> KLocalhost, port |-> port])>>
  \o (IF format.given /\ IsRevealjsOutput(format.pandoc)
      THEN <<RenderEjs(ResourcePath("editor/devserver/devserver-revealjs.html"),
                       [none |-> 0])>>
      ELSE <<RenderEjs(ResourcePath("editor/devserver/devserver-viewer.html"),
                       [inputFile |-> inputFile.value])>>)

\* the array `devserver` of devServerClientScript when it is joined
DevServerParts(port, inputFile, format, isPresentation) ==
  LET core == <<RenderEjs(ResourcePath("editor/devserver/devserver-core.html"),
                          [localhost |-> KLocalhost, port |-> port])>>
  IN IF TruthyOpt(isPresentation) /\ format.given /\ IsRevealjsOutput(format.pandoc)
     THEN IF IsRevealjsOutput(format.pandoc)
          THEN core \o <<RenderEjs(
                 ResourcePath("editor/devserver/devserver-revealjs.html"),
                 [none |-> 0])>>
          ELSE core
     ELSE core \o <<RenderEjs(
            ResourcePath("editor/devserver/devserver-viewer.html"),
            \* inputFile || ""
            [inputFile |-> IF inputFile.given /\ inputFile.value # <<>>
                           THEN inputFile.value ELSE <<>>])>>

DevServerClientScript(port, inputFile, format, isPresentation) ==
  Join(DevServerParts(port, inputFile, format, isPresentation), <<NL>>)

\* new TextEncoder().encode(text): UTF-8, for code points below 2048
RECURSIVE Utf8(_)
Utf8(text) ==
  IF text = <<>> THEN <<>>
  ELSE (IF Head(text) < 128
        THEN <<Head(text)>>
        ELSE <<192 + (Head(text) \div 64), 128 + (Head(text) % 64)>>)
       \o Utf8(Tail(text))

\* variant: the script is appended without the newline in front of it
InjectBytes_NoNewline(file, script) ==
  [file |-> file, out |-> file \o Utf8(script)]

\* the body of injectClient: the caller's buffer after the call and the
\* buffer returned
InjectBytes(file, script) ==
  LET scriptContents == Utf8(<<NL>> \o script)
      fileWithScript ==
        [k \in 1..(Len(file) + Len(scriptContents)) |->
           IF k <= Len(file) THEN file[k] ELSE scriptContents[k - Len(file)]]
  IN [file |-> file, out |-> fileWithScript]

InjectClient(inputFile, format) ==
  LET parts == DevServerParts(server.port, inputFile, format, server.isPresentation)
      script == DevServerClientScript(server.port, inputFile, format,
                                      server.isPresentation)
      r == InjectBytes(buffer, script)
  IN /\ buffer' = r.file
     /\ injected' = [called |-> TRUE, inputFile |-> inputFile, format |-> format,
                     parts |-> parts, script |-> script, before |-> buffer,
                     out |-> r.out]
     /\ UNCHANGED <<regvars, server, handled>>

InjectAny == \E inputFile \in InputFiles, format \in Formats :
               InjectClient(inputFile, format)

\* variant: handle performs the upgrade itself
Handle_Registers(upgrade) ==
  /\ nextSocket <= MaxSockets
  /\ handled' = [called |-> TRUE, upgrade |-> upgrade,
                 result |-> upgrade.given /\ upgrade.value = "websocket"]
  /\ clients' = Append(clients, [path |-> "/", socket |-> nextSocket])
  /\ nextSocket' = nextSocket + 1
  /\ UNCHANGED <<pass, nextPass, lastConnect, removed, ghost, server, buffer, injected>>

\* handle(req): req.headers.get("upgrade") === "websocket"
Handle(upgrade) ==
  /\ handled' = [called |-> TRUE, upgrade |-> upgrade,
                 result |-> upgrade.given /\ upgrade.value = "websocket"]
  /\ UNCHANGED <<regvars, server, buffer, injected>>

HandleAny == \E upgrade \in UpgradeHeaders : Handle(upgrade)

\* a server built with any parameters, serving a file
InitInject ==
  /\ InitRegistry
  /\ server \in [port : Ports, isPresentation : OptBools]
  /\ buffer \in Files
  /\ injected = NoInjected
  /\ handled = NoHandled

NextInject ==
  \/ ConnectAny
  \/ InjectAny
  \/ HandleAny

SpecInject == InitInject /\ [][NextInject]_vars

Next ==
  \/ ConnectAny
  \/ ReloadStart
  \/ \E q \in PassIds : ReloadResume(q)
  \/ LogStart
  \/ \E q \in PassIds : LogResume(q)

Spec == Init /\ [][Next]_vars

\* a function suspended at `await socket.send(..)` is resumed: the awaited
\* value is already settled, its continuation is on the microtask queue
Fairness ==
  \A q \in PassIds : WF_vars(ReloadResume(q)) /\ WF_vars(LogResume(q))

SpecFair == Spec /\ Fairness

TypeOK ==
  /\ Len(clients) <= MaxSockets
  /\ nextSocket \in 1..(MaxSockets + 1)
  /\ nextPass \in 1..(MaxPasses + 1)
  /\ \A p \in PassIds : pass[p].status \in {"idle", "awaiting", "done", "rejected"}

\* ---- properties ----
Range(f) == {f[k] : k \in DOMAIN f}

Reverse(f) == [k \in 1..Len(f) |-> f[Len(f) + 1 - k]]

SentSockets(p) == [k \in 1..Len(pass[p].sent) |-> pass[p].sent[k].socket]

Finishes(p) == pass[p].status # "done" /\ pass'[p].status = "done"

\* C1: when a reloadClients pass during which no other operation ran
\* resolves, the registry is empty, whatever sends failed.
ReloadEmptiesRegistry ==
  [][\A p \in PassIds :
       (pass'[p].kind = "reload" /\ Finishes(p) /\ ghost'[p].solo)
         => clients' = <<>>]_vars

ReloadEmptiesRegistry_Witness ==
  \E p \in PassIds :
    /\ pass[p].kind = "reload" /\ pass[p].status = "done" /\ ghost[p].solo
    /\ Len(pass[p].start) = 2
    /\ pass[p].failed # {} /\ pass[p].failed # Range(pass[p].start)
    /\ clients = <<>>

\* C2: a finished reloadClients pass during which no other operation ran
\* has called close() once for each client it started with (no model socket
\* is closed or closing).
ReloadClosesEveryClient ==
  \A p \in PassIds :
    (pass[p].kind = "reload" /\ pass[p].status = "done" /\ ghost[p].solo)
      => pass[p].closes = Reverse(pass[p].start)

\* C3: no turn of the log handler changes the registry, whatever sends fail.
LogKeepsRegistry ==
  [][\A p \in PassIds :
       (pass'[p].kind = "log" /\ pass'[p] # pass[p]) => clients' = clients]_vars

LogKeepsRegistry_Witness ==
  \E p \in PassIds :
    /\ pass[p].kind = "log" /\ pass[p].status = "done"
    /\ Len(pass[p].start) = 2 /\ Cardinality(pass[p].failed) = 1
    /\ SocketSeq(clients) = pass[p].start

LogHandlerNeverRejects ==
  \A p \in PassIds : pass[p].kind = "log" => pass[p].status # "rejected"

\* C6: for two log records emitted one after the other, no client is sent
\* the later frame before every client was sent the earlier one, that is
\* before the earlier broadcast has completed.
LogFramesInEmissionOrder ==
  \A p, q \in PassIds :
    (p < q /\ pass[p].kind = "log" /\ pass[q].kind = "log"
       /\ pass[q].sent # <<>>)
      => pass[p].status = "done"

\* C7 as stated: when a pass (log or reload) has ended, no client whose send
\* failed in it is still registered.
FailedSendRemoved ==
  \A p \in PassIds :
    pass[p].status = "done" => pass[p].failed \cap SocketsOf(clients) = {}

\* C7 amended: a client whose send failed in a reloadClients pass is not in
\* the registry once the turn of that send is over.
ReloadFailedSendRemoved ==
  \A p \in PassIds :
    pass[p].kind = "reload" => pass[p].failed \cap SocketsOf(clients) = {}

ReloadFailedSendRemoved_Witness ==
  \E p \in PassIds :
    /\ pass[p].kind = "reload" /\ pass[p].status = "awaiting"
    /\ pass[p].failed # {} /\ clients # <<>>

\* C8: a connect call whose upgrade worked appends exactly one client (the
\* request url, the new socket) and returns the response; one whose upgrade
\* failed reports the error, returns undefined and leaves the registry as is.
ConnectContract ==
  [][ConnectAny =>
       \/ /\ lastConnect'.returned = "response" /\ ~lastConnect'.displayed
          /\ Len(clients') = Len(clients) + 1
          /\ SubSeq(clients', 1, Len(clients)) = clients
          /\ clients'[Len(clients')] =
               [path |-> lastConnect'.url, socket |-> nextSocket]
       \/ /\ lastConnect'.returned = "undefined" /\ lastConnect'.displayed
          /\ clients' = clients]_vars

ConnectContract_Witness ==
  /\ lastConnect.returned = "undefined" /\ lastConnect.displayed
  /\ Len(clients) >= 1

\* C9: every frame a reloadClients pass sends is "reload" followed by the
\* target, "reload" alone when the target is omitted, and a pass during which
\* no other operation ran sends once to each client it started with.
ReloadFrameExact ==
  \A p \in PassIds :
    pass[p].kind = "reload" =>
      /\ \A k \in 1..Len(pass[p].sent) :
           pass[p].sent[k].frame =
             (IF ~pass[p].arg.given THEN "reload"
              ELSE IF pass[p].arg.value = "/x" THEN "reload/x"
              ELSE "?")
      /\ (pass[p].status = "done" /\ ghost[p].solo)
           => SentSockets(p) = Reverse(pass[p].start)

ReloadFrameExact_Witness ==
  \E p \in PassIds :
    /\ pass[p].kind = "reload" /\ pass[p].status = "done" /\ ghost[p].solo
    /\ pass[p].arg.given /\ Len(pass[p].start) = 2
    /\ Cardinality(pass[p].failed) = 1
    /\ \A k \in 1..2 : pass[p].sent[k].frame = "reload/x"

\* C10: a removed client is never in the registry again; a step adds a
\* client only by a successful connect, and the client it adds is new.
RemovedIsTerminal ==
  [][/\ removed' \cap SocketsOf(clients') = {}
     /\ \A s \in SocketsOf(clients') \ SocketsOf(clients) :
          /\ ConnectAny /\ lastConnect'.returned = "response"
          /\ s = nextSocket /\ s \notin removed]_vars

RemovedIsTerminal_Witness ==
  /\ removed # {} /\ clients # <<>>
  /\ lastConnect.returned = "response"
  /\ \E p \in PassIds : pass[p].kind = "reload" /\ pass[p].status = "done"

\* ---- properties of injectClient and handle (under SpecInject) ----
CoreFragment == <<67, 49, 50, 55, 46, 48, 46, 48, 46, 49, 58, 56, 48>>

\* C11: the script is the core fragment, a newline and exactly one variant:
\* the presentation fragment when isPresentation is true and the format is
\* given and is revealjs, the viewer fragment with inputFile (or "") otherwise.
OneVariantSelected ==
  injected.called =>
    LET presentation ==
          /\ server.isPresentation = [given |-> TRUE, value |-> TRUE]
          /\ injected.format = [given |-> TRUE, pandoc |-> [to |-> "revealjs"]]
        variant == IF presentation THEN <<82>> ELSE <<86>> \o injected.inputFile.value
    IN /\ injected.parts = <<CoreFragment, variant>>
       /\ injected.script = CoreFragment \o <<NL>> \o variant
       /\ presentation => \A k \in 1..Len(injected.script) : injected.script[k] # 86
       /\ ~presentation => \A k \in 1..Len(injected.script) : injected.script[k] # 82

OneVariantSelected_Witness ==
  /\ injected.called
  /\ server.isPresentation.value
  /\ injected.format.pandoc.to = "revealjs"
  /\ injected.inputFile.value = <<105>>
  /\ injected.parts[2] = <<82>>

\* C12: the output is the input bytes, a newline byte and the encoded script;
\* the caller's buffer is as it was.
InjectAppends ==
  injected.called =>
    /\ Len(injected.out) = Len(injected.before) + 1 + Len(Utf8(injected.script))
    /\ SubSeq(injected.out, 1, Len(injected.before)) = injected.before
    /\ injected.out[Len(injected.before) + 1] = 10
    /\ SubSeq(injected.out, Len(injected.before) + 2, Len(injected.out))
         = Utf8(injected.script)
    /\ buffer = injected.before

InjectAppends_Witness ==
  /\ injected.called
  /\ Len(injected.before) = MaxFileLen
  /\ injected.inputFile.value = <<233>>
  /\ ~server.isPresentation.value
  /\ Len(Utf8(injected.script)) = Len(injected.script) + 1
  /\ Len(injected.out) = Len(injected.before) + Len(injected.script) + 2

\* C13: a call of injectClient or of handle leaves the registry and every
\* pass (its sends and closes) as they were.
InjectHandleKeepRegistry ==
  [][(injected' # injected \/ handled' # handled) =>
       /\ clients' = clients
       /\ pass' = pass
       /\ removed' = removed
       /\ nextSocket' = nextSocket]_vars

InjectHandleKeepRegistry_Witness ==
  /\ injected.called /\ handled.called /\ handled.result
  /\ Len(clients) = 2

\* ---- properties of the traversal and of interleaved passes (under Spec) ----
IsPrefix(a, b) == Len(a) <= Len(b) /\ SubSeq(b, 1, Len(a)) = a

RemovedOnlyAfterSend ==
  \A s \in removed :
    \E p \in PassIds :
      pass[p].kind = "reload" /\ s \in Range(SentSockets(p))

\* C17: no reloadClients call ends in an error (reads clients[i] where i is
\* not an index of the registry).
ReloadNeverRejects ==
  \A p \in PassIds : pass[p].kind = "reload" => pass[p].status # "rejected"

\* C18: when a reloadClients pass resolves and no other pass removed a
\* client during it, the registry holds exactly the clients that connected
\* during the pass, in connection order, and the pass sent to none of them.
ConnectedDuringReloadKept ==
  [][\A p \in PassIds :
       (pass'[p].kind = "reload" /\ Finishes(p) /\ ghost'[p].intact) =>
         /\ SocketSeq(clients') =
              [k \in 1..(nextSocket' - ghost'[p].first) |-> ghost'[p].first + k - 1]
         /\ \A k \in 1..Len(pass'[p].sent) :
              pass'[p].sent[k].socket < ghost'[p].first
         /\ \A k \in 1..Len(pass'[p].spliced) :
              pass'[p].spliced[k] < ghost'[p].first]_vars

ConnectedDuringReloadKept_Witness ==
  \E p \in PassIds :
    /\ pass[p].kind = "reload" /\ pass[p].status = "done" /\ ghost[p].intact
    /\ pass[p].start = <<1>> /\ ghost[p].first = 2
    /\ SocketSeq(clients) = <<2>> /\ removed = {1}

\* C19: a pass runs at most as many loop iterations as there were clients
\* at its call, and a suspended pass is resumed until it has ended.
PassTerminates ==
  /\ [](\A p \in PassIds :
          /\ pass[p].i >= -1
          /\ Len(pass[p].sent) + (IF pass[p].status = "rejected" THEN 1 ELSE 0)
               <= Len(pass[p].start))
  /\ \A p \in PassIds :
       (pass[p].status = "awaiting") ~> (pass[p].status \in {"done", "rejected"})

PassTerminates_Witness ==
  \E p \in PassIds :
    /\ pass[p].status = "done" /\ ~ghost[p].solo
    /\ \A q \in PassIds \ {p} : pass[q].status = "idle"
    /\ Len(pass[p].start) = 1 /\ Len(clients) = 2
    /\ Len(pass[p].sent) = 1 /\ pass[p].failed = {}
====
